---- MODULE Spec2Model ----
(***************************************************************************)
(* Netpbm image library (PBM / PGM / PPM): codecs and raster transforms.   *)
(*                                                                         *)
(* A file is a sequence of bytes (0..255).  An image is a record with the  *)
(* fields of the Go struct (data, width, height, magicNumber, max).  Go    *)
(* slices are 0-based, TLA+ sequences 1-based: data[y][x] of the source is *)
(* data[y+1][x+1] here.                                                    *)
(***************************************************************************)
EXTENDS Integers, Sequences, FiniteSets, TLC

VARIABLES
    img,      \* the image the caller holds (Nil when it holds none)
    disk,     \* contents of the file Read opens and Save creates
    saved,    \* history: the image the last Save wrote to disk (Nil if none)
    ret,      \* error value returned by the last Read or Save ("nil" = none)
    lastOp,   \* history: name of the last operation
    args,     \* history: the arguments of the last operation
    reps,     \* history: how many times lastOp was applied in a row
    snap,     \* history: the image before the current run of lastOp
    fuel,     \* operations left in a run of bounded length (Unbounded: no limit)
    stream,   \* history: what the last Read or Save did with its file
    trace     \* history: the pixel writes, lines or table indexes of the last drawing call

vars == <<img, disk, saved, ret, lastOp, args, reps, snap, fuel, stream, trace>>

----------------------------------------------------------------------------
(* Bounds of the model *)

MaxPixB == 6      \* PBM images enumerated in full have width*height <= MaxPixB
MaxPixG == 3      \* PGM images enumerated in full have width*height <= MaxPixG
MaxPixP == 3      \* PPM images enumerated in full have width*height <= MaxPixP
MaxNew == 4       \* KNearestNeighbors is called with sizes 1..MaxNew
WideExtra == 10   \* a wide row is WideExtra bytes longer than the read buffer
MaxReps == 4      \* a run of one transform is followed for MaxReps steps
MaxSteps == 3     \* a run of bounded length has MaxSteps operations

----------------------------------------------------------------------------
(* Bytes and text *)

NL == 10          \* '\n'
SP == 32          \* ' '
BufSize == 4096   \* bufio.NewReader: default buffer size

Nil == [kind |-> "nil"]

Min(S) == CHOOSE m \in S : \A k \in S : m <= k
Max(S) == CHOOSE m \in S : \A k \in S : m >= k

IsSpace(c) == c \in {9, 10, 11, 12, 13, 32}
IsDigit(c) == c \in 48..57

\* the same with the token of P5 in the place of the token of P4
MagicBytes_p5(m) ==
    CASE m = "P1" -> <<80, 49>> [] m = "P2" -> <<80, 50>> [] m = "P3" -> <<80, 51>>
      [] m = "P4" -> <<80, 53>> [] m = "P5" -> <<80, 53>> [] m = "P6" -> <<80, 54>>
      [] OTHER -> <<80, 55>>

\* the bytes of a magic-number string
MagicBytes(m) ==
    CASE m = "P1" -> <<80, 49>> [] m = "P2" -> <<80, 50>> [] m = "P3" -> <<80, 51>>
      [] m = "P4" -> <<80, 52>> [] m = "P5" -> <<80, 53>> [] m = "P6" -> <<80, 54>>
      [] OTHER -> <<80, 55>>

\* strconv.Itoa / the %d verb of Fprintf
RECURSIVE Itoa(_)
Itoa(n) ==
    IF n < 0 THEN <<45>> \o Itoa(-n)
    ELSE IF n < 10 THEN <<48 + n>>
    ELSE Itoa(n \div 10) \o <<48 + (n % 10)>>

\* strings.TrimSpace
TrimSpace(s) ==
    LET ns == {i \in 1..Len(s) : ~IsSpace(s[i])}
    IN  IF ns = {} THEN <<>> ELSE SubSeq(s, Min(ns), Max(ns))

\* strings.Fields
RECURSIVE Fields(_)
Fields(s) ==
    LET ns == {i \in 1..Len(s) : ~IsSpace(s[i])}
    IN  IF ns = {} THEN <<>>
        ELSE LET b  == Min(ns)
                 sp == {i \in b..Len(s) : IsSpace(s[i])}
                 e  == IF sp = {} THEN Len(s) + 1 ELSE Min(sp)
             IN  <<SubSeq(s, b, e - 1)>> \o Fields(SubSeq(s, e, Len(s)))

\* value of a string of decimal digits
RECURSIVE DigitsVal(_)
DigitsVal(s) ==
    IF s = <<>> THEN 0
    ELSE 10 * DigitsVal(SubSeq(s, 1, Len(s) - 1)) + (s[Len(s)] - 48)

\* number of leading bytes of s that are decimal digits
LeadDigits(s) ==
    LET nd == {i \in 1..Len(s) : ~IsDigit(s[i])}
    IN  IF nd = {} THEN Len(s) ELSE Min(nd) - 1

\* leading white space removed
SkipSpace(s) ==
    LET ns == {i \in 1..Len(s) : ~IsSpace(s[i])}
    IN  IF ns = {} THEN <<>> ELSE SubSeq(s, Min(ns), Len(s))

\* the %d verb of fmt.Sscanf into an int: spaces, optional sign, digits;
\* input after the digits is left for the rest of the format
ScanInt(s) ==
    LET s1  == SkipSpace(s)
        sgn == Len(s1) > 0 /\ s1[1] \in {43, 45}
        s2  == IF sgn THEN Tail(s1) ELSE s1
        n   == LeadDigits(s2)
        v   == DigitsVal(SubSeq(s2, 1, n))
    IN  IF n = 0 THEN [ok |-> FALSE, val |-> 0, rest |-> <<>>]
        ELSE [ok |-> TRUE,
              val |-> IF sgn /\ s1[1] = 45 THEN -v ELSE v,
              rest |-> SubSeq(s2, n + 1, Len(s2))]

\* the %d verb of fmt.Sscanf into a uint8: no sign, and the value must fit
ScanUint8(s) ==
    LET s1 == SkipSpace(s)
        n  == LeadDigits(s1)
        v  == DigitsVal(SubSeq(s1, 1, n))
    IN  IF n = 0 \/ v > 255 THEN [ok |-> FALSE, val |-> 0]
        ELSE [ok |-> TRUE, val |-> v]

\* fmt.Sscanf(s, "%d %d", &width, &height)
ScanDims(s) ==
    LET a == ScanInt(s)
        b == ScanInt(a.rest)
    IN  [ok |-> a.ok /\ b.ok, width |-> a.val, height |-> b.val]

----------------------------------------------------------------------------
(* bufio.Reader over a regular file.  rd.r and rd.w are the file offsets   *)
(* of the read and write positions of the buffer: the buffer holds the     *)
(* bytes r+1..w of the file.                                               *)

NewReader == [r |-> 0, w |-> 0]

FirstNL(file, r, w) ==
    LET S == {i \in (r + 1)..w : file[i] = NL}
    IN  IF S = {} THEN 0 ELSE Min(S)

\* where reader.ReadString('\n') stops: the loop of ReadSlice and fill
RECURSIVE ReadStringEnd(_, _)
ReadStringEnd(file, rd) ==
    LET i == FirstNL(file, rd.r, rd.w)
    IN  IF i # 0 THEN [err |-> "nil", rd |-> [r |-> i, w |-> rd.w]]
        ELSE IF rd.w - rd.r >= BufSize
             THEN ReadStringEnd(file, [r |-> rd.w, w |-> rd.w])
        ELSE IF rd.w = Len(file)
             THEN [err |-> "EOF", rd |-> [r |-> rd.w, w |-> rd.w]]
        ELSE ReadStringEnd(file,
                 [r |-> rd.r, w |-> Min({rd.r + BufSize, Len(file)})])

\* reader.ReadString('\n')
ReadString(file, rd) ==
    LET e == ReadStringEnd(file, rd)
    IN  [line |-> SubSeq(file, rd.r + 1, e.rd.r), err |-> e.err, rd |-> e.rd]

\* reader.Read(p) with len(p) = n: one copy out of the buffer, after at most
\* one read of the file when the buffer is empty
BufRead(file, rd, n) ==
    IF n = 0 THEN [n |-> 0, err |-> "nil", rd |-> rd]
    ELSE IF rd.r = rd.w /\ rd.w = Len(file)
         THEN [n |-> 0, err |-> "EOF", rd |-> rd]
    ELSE LET w == IF rd.r # rd.w THEN rd.w
                  ELSE IF n >= BufSize THEN Min({rd.r + n, Len(file)})
                  ELSE Min({rd.r + BufSize, Len(file)})
             k == Min({n, w - rd.r})
         IN  [n |-> k, err |-> "nil", rd |-> [r |-> rd.r + k, w |-> w]]

\* n calls of reader.ReadString('\n') one after the other
RECURSIVE ReadLines(_, _, _)
ReadLines(file, rd, n) ==
    IF n = 0 THEN <<>>
    ELSE LET l == ReadString(file, rd)
         IN  <<l>> \o ReadLines(file, l.rd, n - 1)

\* what a decoder takes from the n header lines: the magic number of line 1,
\* the dimensions of line 2 and, for PGM and PPM, the max value of line 3;
\* err[i] is the error of the i-th ReadString, rd the reader after the header
ReadHeader(file, n) ==
    LET Parse(ls) ==
            [err |-> [i \in 1..n |-> ls[i].err],
             magic |-> TrimSpace(ls[1].line),
             d |-> ScanDims(TrimSpace(ls[2].line)),
             max |-> ScanInt(TrimSpace(ls[n].line)),
             rd |-> ls[n].rd]
    IN  Parse(ReadLines(file, NewReader, n))

----------------------------------------------------------------------------
(* PBM: type, decoder, encoder *)

PBM(data, width, height, magicNumber) ==
    [kind |-> "PBM", data |-> data, width |-> width, height |-> height,
     magicNumber |-> magicNumber]

\* the same with the grid built so far returned along with the error
Failed_grid(e) == [img |-> PBM(<<>>, 0, 0, "P1"), err |-> e]

Failed(e) == [img |-> Nil, err |-> e]

\* 2^n
RECURSIVE Pow2(_)
Pow2(n) == IF n = 0 THEN 1 ELSE 2 * Pow2(n - 1)

\* (b >> i) & 1
Bit(b, i) == (b \div Pow2(i)) % 2

\* rows y..height-1 of a P1 payload (ReadPBM, the ASCII loop)
RECURSIVE ReadRowsP1(_, _, _, _, _, _)
ReadRowsP1(file, rd, y, width, height, data) ==
    IF y >= height THEN [err |-> "nil", data |-> data]
    ELSE LET l == ReadString(file, rd)
             fields == Fields(l.line)
         IN  IF l.err # "nil" THEN [err |-> "error reading data", data |-> <<>>]
             ELSE IF Len(fields) > width
                  THEN [err |-> "index out of range", data |-> <<>>]
             ELSE ReadRowsP1(file, l.rd, y + 1, width, height,
                      Append(data, [x \in 1..width |->
                          IF x <= Len(fields) THEN fields[x] = <<49>> ELSE FALSE]))

\* the same with the bit mask forgotten: decimalValue >> bitIndex
P4Pixels_nomask(row, width) ==
    [x \in 1..width |->
        (row[((x - 1) \div 8) + 1] \div Pow2(7 - ((x - 1) % 8))) # 0]

\* the pixels of one P4 row: bit 7 - x%8 of byte x/8, for x < width
P4Pixels(row, width) ==
    [x \in 1..width |-> Bit(row[((x - 1) \div 8) + 1], 7 - ((x - 1) % 8)) # 0]

\* rows y..height-1 of a P4 payload (ReadPBM, the binary loop)
RECURSIVE ReadRowsP4(_, _, _, _, _, _)
ReadRowsP4(file, rd, y, width, height, data) ==
    IF y >= height THEN [err |-> "nil", data |-> data]
    ELSE LET expectedBytesPerRow == (width + 7) \div 8
             rr == BufRead(file, rd, expectedBytesPerRow)
             row == SubSeq(file, rd.r + 1, rd.r + rr.n)
         IN  IF rr.err # "nil" \/ rr.n < expectedBytesPerRow
             THEN [err |-> "unexpected end of file", data |-> <<>>]
             ELSE ReadRowsP4(file, rr.rd, y + 1, width, height,
                             Append(data, P4Pixels(row, width)))

\* ReadPBM once the header is read
DecodePBM(file, h) ==
    LET rows == IF h.magic = MagicBytes("P1")
                THEN ReadRowsP1(file, h.rd, 0, h.d.width, h.d.height, <<>>)
                ELSE ReadRowsP4(file, h.rd, 0, h.d.width, h.d.height, <<>>)
    IN  IF h.err[1] # "nil" THEN Failed("error reading magic number")
        ELSE IF h.magic # MagicBytes("P1") /\ h.magic # MagicBytes("P4")
             THEN Failed("invalid magic number")
        ELSE IF h.err[2] # "nil" THEN Failed("error reading dimensions")
        ELSE IF ~h.d.ok THEN Failed("invalid dimensions")
        ELSE IF h.d.height < 0 \/ (h.d.height > 0 /\ h.d.width < 0)
             THEN Failed("panic")     \* make: len out of range
        ELSE IF rows.err # "nil" THEN Failed(rows.err)
        ELSE [img |-> PBM(rows.data, h.d.width, h.d.height,
                          IF h.magic = MagicBytes("P1") THEN "P1" ELSE "P4"),
              err |-> "nil"]

ReadPBM(file) == DecodePBM(file, ReadHeader(file, 2))

\* the same packing with the least significant bit first: 1 << bitIndex
RECURSIVE PackBits_lsb(_, _, _)
PackBits_lsb(row, x, bytes) ==
    IF x >= Len(row) THEN bytes
    ELSE PackBits_lsb(row, x + 1,
             IF row[x + 1] /\ Bit(bytes[(x \div 8) + 1], x % 8) = 0
             THEN [b \in 1..Len(bytes) |->
                      IF b = (x \div 8) + 1 THEN bytes[b] + Pow2(x % 8)
                      ELSE bytes[b]]
             ELSE bytes)

\* the bytes of one P4 row: bytes[x/8] |= 1 << (7 - x%8) for every set pixel
RECURSIVE PackBits(_, _, _)
PackBits(row, x, bytes) ==
    IF x >= Len(row) THEN bytes
    ELSE PackBits(row, x + 1,
             IF row[x + 1] /\ Bit(bytes[(x \div 8) + 1], 7 - (x % 8)) = 0
             THEN [b \in 1..Len(bytes) |->
                      IF b = (x \div 8) + 1 THEN bytes[b] + Pow2(7 - (x % 8))
                      ELSE bytes[b]]
             ELSE bytes)

\* the byte strings of ss written one after the other
RECURSIVE Concat(_)
Concat(ss) == IF ss = <<>> THEN <<>> ELSE Head(ss) \o Concat(Tail(ss))

SavePBM(pbm) ==
    LET header == MagicBytes(pbm.magicNumber) \o <<NL>>
                  \o Itoa(pbm.width) \o <<SP>> \o Itoa(pbm.height) \o <<NL>>
        P1Pixel(pixel) == IF pixel THEN <<49, SP>> ELSE <<48, SP>>
        P1Row(row) == Concat([x \in 1..Len(row) |-> P1Pixel(row[x])]) \o <<NL>>
        P4Row(row) == PackBits(row, 0, [b \in 1..((pbm.width + 7) \div 8) |-> 0])
    IN  [bytes |-> header \o
                   (IF pbm.magicNumber = "P1"
                    THEN Concat([y \in 1..Len(pbm.data) |-> P1Row(pbm.data[y])])
                    ELSE IF pbm.magicNumber = "P4"
                    THEN Concat([y \in 1..Len(pbm.data) |-> P4Row(pbm.data[y])])
                    ELSE <<>>),
         err |-> "nil"]

----------------------------------------------------------------------------
(* PGM: type, decoder, encoder *)

PGM(data, width, height, magicNumber, max) ==
    [kind |-> "PGM", data |-> data, width |-> width, height |-> height,
     magicNumber |-> magicNumber, max |-> max]

\* the same with the row made as long as the line has tokens
P2Row_fields(fields, width) ==
    LET bad == {i \in 1..Len(fields) : i > width \/ ~ScanUint8(fields[i]).ok}
    IN  IF bad = {}
        THEN [err |-> "nil",
              row |-> [x \in 1..Len(fields) |-> ScanUint8(fields[x]).val]]
        ELSE IF Min(bad) > width THEN [err |-> "index out of range", row |-> <<>>]
        ELSE [err |-> "error parsing pixel value", row |-> <<>>]

\* one P2 row: the fields in order, each checked against width, then parsed
P2Row(fields, width) ==
    LET bad == {i \in 1..Len(fields) : i > width \/ ~ScanUint8(fields[i]).ok}
    IN  IF bad = {}
        THEN [err |-> "nil",
              row |-> [x \in 1..width |->
                  IF x <= Len(fields) THEN ScanUint8(fields[x]).val ELSE 0]]
        ELSE IF Min(bad) > width THEN [err |-> "index out of range", row |-> <<>>]
        ELSE [err |-> "error parsing pixel value", row |-> <<>>]

\* rows y..height-1 of a P2 payload (ReadPGM, the ASCII loop)
RECURSIVE ReadRowsP2(_, _, _, _, _, _)
ReadRowsP2(file, rd, y, width, height, data) ==
    IF y >= height THEN [err |-> "nil", data |-> data]
    ELSE LET l == ReadString(file, rd)
             rowData == P2Row(Fields(l.line), width)
         IN  IF l.err # "nil" THEN [err |-> "error reading data", data |-> <<>>]
             ELSE IF rowData.err # "nil" THEN [err |-> rowData.err, data |-> <<>>]
             ELSE ReadRowsP2(file, l.rd, y + 1, width, height,
                             Append(data, rowData.row))

\* rows y..height-1 of a P5 payload (ReadPGM, the binary loop)
RECURSIVE ReadRowsP5(_, _, _, _, _, _)
ReadRowsP5(file, rd, y, width, height, data) ==
    IF y >= height THEN [err |-> "nil", data |-> data]
    ELSE LET rr == BufRead(file, rd, width)
             row == SubSeq(file, rd.r + 1, rd.r + rr.n)
         IN  IF rr.err # "nil" \/ rr.n < width
             THEN [err |-> "unexpected end of file", data |-> <<>>]
             ELSE ReadRowsP5(file, rr.rd, y + 1, width, height,
                             Append(data, [x \in 1..width |-> row[x]]))

\* ReadPGM once the header is read
DecodePGM(file, h) ==
    LET rows == IF h.magic = MagicBytes("P2")
                THEN ReadRowsP2(file, h.rd, 0, h.d.width, h.d.height, <<>>)
                ELSE ReadRowsP5(file, h.rd, 0, h.d.width, h.d.height, <<>>)
    IN  IF h.err[1] # "nil" THEN Failed("error reading magic number")
        ELSE IF h.magic # MagicBytes("P2") /\ h.magic # MagicBytes("P5")
             THEN Failed("invalid magic number")
        ELSE IF h.err[2] # "nil" THEN Failed("error reading dimensions")
        ELSE IF ~h.d.ok THEN Failed("invalid dimensions")
        ELSE IF h.d.width <= 0 \/ h.d.height <= 0 THEN Failed("invalid dimensions")
        ELSE IF h.err[3] # "nil" THEN Failed("error reading max value")
        ELSE IF ~h.max.ok THEN Failed("invalid max value")
        ELSE IF rows.err # "nil" THEN Failed(rows.err)
        ELSE [img |-> PGM(rows.data, h.d.width, h.d.height,
                          IF h.magic = MagicBytes("P2") THEN "P2" ELSE "P5", h.max.val),
              err |-> "nil"]

ReadPGM(file) == DecodePGM(file, ReadHeader(file, 3))

\* saveP2PGM: the samples of a row separated by one space, one row per line
saveP2PGM(pgm) ==
    Concat([y \in 1..pgm.height |->
        Concat([x \in 1..pgm.width |->
            Itoa(pgm.data[y][x]) \o (IF x < pgm.width THEN <<SP>> ELSE <<>>)])
        \o <<NL>>])

\* saveP5PGM: one byte per sample
saveP5PGM(pgm) ==
    Concat([y \in 1..pgm.height |-> [x \in 1..pgm.width |-> pgm.data[y][x]]])

SavePGM(pgm) ==
    LET header == MagicBytes(pgm.magicNumber) \o <<NL>>
                  \o Itoa(pgm.width) \o <<SP>> \o Itoa(pgm.height) \o <<NL>>
                  \o Itoa(pgm.max) \o <<NL>>
    IN  IF \E y \in 1..Len(pgm.data) : Len(pgm.data[y]) # pgm.width
        THEN [bytes |-> <<>>, err |-> "inconsistent row length"]   \* never flushed
        ELSE [bytes |-> header \o
                        (IF pgm.magicNumber = "P2" THEN saveP2PGM(pgm)
                         ELSE IF pgm.magicNumber = "P5" THEN saveP5PGM(pgm)
                         ELSE <<>>),
              err |-> "nil"]

----------------------------------------------------------------------------
(* PPM: type, decoder, encoder *)

Pixel(r, g, b) == [R |-> r, G |-> g, B |-> b]

PPM(data, width, height, magicNumber, max) ==
    [kind |-> "PPM", data |-> data, width |-> width, height |-> height,
     magicNumber |-> magicNumber, max |-> max]

\* one P3 row: for each column the three fields must exist, then are parsed
P3Row(fields, width) ==
    LET bad == {x \in 0..(width - 1) :
                   \/ x * 3 + 2 >= Len(fields)
                   \/ \E c \in 1..3 : ~ScanUint8(fields[x * 3 + c]).ok}
    IN  IF bad = {}
        THEN [err |-> "nil",
              row |-> [x \in 1..width |->
                  Pixel(ScanUint8(fields[(x - 1) * 3 + 1]).val,
                        ScanUint8(fields[(x - 1) * 3 + 2]).val,
                        ScanUint8(fields[(x - 1) * 3 + 3]).val)]]
        ELSE IF Min(bad) * 3 + 2 >= Len(fields)
             THEN [err |-> "index out of range", row |-> <<>>]
        ELSE [err |-> "error parsing pixel value", row |-> <<>>]

\* rows y..height-1 of a P3 payload (ReadPPM, the ASCII loop)
RECURSIVE ReadRowsP3(_, _, _, _, _, _)
ReadRowsP3(file, rd, y, width, height, data) ==
    IF y >= height THEN [err |-> "nil", data |-> data]
    ELSE LET l == ReadString(file, rd)
             rowData == P3Row(Fields(l.line), width)
         IN  IF l.err # "nil" THEN [err |-> "error reading data", data |-> <<>>]
             ELSE IF rowData.err # "nil" THEN [err |-> rowData.err, data |-> <<>>]
             ELSE ReadRowsP3(file, l.rd, y + 1, width, height,
                             Append(data, rowData.row))

\* rows y..height-1 of a P6 payload (ReadPPM, the binary loop)
RECURSIVE ReadRowsP6(_, _, _, _, _, _)
ReadRowsP6(file, rd, y, width, height, data) ==
    IF y >= height THEN [err |-> "nil", data |-> data]
    ELSE LET rr == BufRead(file, rd, width * 3)
             row == SubSeq(file, rd.r + 1, rd.r + rr.n)
         IN  IF rr.err # "nil" \/ rr.n < width * 3
             THEN [err |-> "unexpected end of file", data |-> <<>>]
             ELSE ReadRowsP6(file, rr.rd, y + 1, width, height,
                      Append(data, [x \in 1..width |->
                          Pixel(row[(x - 1) * 3 + 1], row[(x - 1) * 3 + 2],
                                row[(x - 1) * 3 + 3])]))

\* ReadPPM once the header is read
DecodePPM(file, h) ==
    LET rows == IF h.magic = MagicBytes("P3")
                THEN ReadRowsP3(file, h.rd, 0, h.d.width, h.d.height, <<>>)
                ELSE ReadRowsP6(file, h.rd, 0, h.d.width, h.d.height, <<>>)
    IN  IF h.err[1] # "nil" THEN Failed("error reading magic number")
        ELSE IF h.magic # MagicBytes("P3") /\ h.magic # MagicBytes("P6")
             THEN Failed("invalid magic number")
        ELSE IF h.err[2] # "nil" THEN Failed("error reading dimensions")
        ELSE IF ~h.d.ok THEN Failed("invalid dimensions")
        ELSE IF h.d.width <= 0 \/ h.d.height <= 0 THEN Failed("invalid dimensions")
        ELSE IF h.err[3] # "nil" THEN Failed("error reading max value")
        ELSE IF ~h.max.ok THEN Failed("invalid max value")
        ELSE IF rows.err # "nil" THEN Failed(rows.err)
        ELSE [img |-> PPM(rows.data, h.d.width, h.d.height,
                          IF h.magic = MagicBytes("P3") THEN "P3" ELSE "P6", h.max.val),
              err |-> "nil"]

ReadPPM(file) == DecodePPM(file, ReadHeader(file, 3))

SavePPM(ppm) ==
    LET header == MagicBytes(ppm.magicNumber) \o <<NL>>
                  \o Itoa(ppm.width) \o <<SP>> \o Itoa(ppm.height) \o <<NL>>
                  \o Itoa(ppm.max) \o <<NL>>
        P6Pixel(pixel) == <<pixel.R, pixel.G, pixel.B>>
        P3Pixel(pixel) == Itoa(pixel.R) \o <<SP>> \o Itoa(pixel.G) \o <<SP>>
                          \o Itoa(pixel.B) \o <<SP>>
        Payload(f(_), eol) ==
            Concat([y \in 1..ppm.height |->
                Concat([x \in 1..ppm.width |-> f(ppm.data[y][x])]) \o eol])
    IN  IF ppm.magicNumber # "P6" /\ ppm.magicNumber # "P3"
        THEN [bytes |-> <<>>, err |-> "magic number error"]
        ELSE [bytes |-> header \o (IF ppm.magicNumber = "P6"
                                   THEN Payload(P6Pixel, <<>>)
                                   ELSE Payload(P3Pixel, <<NL>>)),
              err |-> "nil"]

----------------------------------------------------------------------------
(* Raster transforms *)

\* uint8(n)
U8(n) == n % 256

\* Go's integer division a / b (truncated towards zero), b > 0
Quo(a, b) == IF a >= 0 THEN a \div b ELSE -((-a) \div b)

InvertPBM(pbm) ==
    [pbm EXCEPT !.data = [i \in 1..Len(pbm.data) |->
        [j \in 1..Len(pbm.data[i]) |->
            IF i <= pbm.height /\ j <= pbm.width
            THEN ~pbm.data[i][j] ELSE pbm.data[i][j]]]]

InvertPGM(pgm) ==
    [pgm EXCEPT !.data = [y \in 1..Len(pgm.data) |->
        [x \in 1..Len(pgm.data[y]) |->
            IF y <= pgm.height /\ x <= pgm.width
            THEN U8(U8(pgm.max) - pgm.data[y][x]) ELSE pgm.data[y][x]]]]

\* the same with the green channel computed from the red one
InvertPPM_copy(ppm) ==
    [ppm EXCEPT !.data = [y \in 1..Len(ppm.data) |->
        [x \in 1..Len(ppm.data[y]) |->
            IF y <= ppm.height /\ x <= ppm.width
            THEN Pixel(U8(U8(ppm.max) - ppm.data[y][x].R),
                       U8(U8(ppm.max) - U8(U8(ppm.max) - ppm.data[y][x].R)),
                       U8(U8(ppm.max) - ppm.data[y][x].B))
            ELSE ppm.data[y][x]]]]

InvertPPM(ppm) ==
    [ppm EXCEPT !.data = [y \in 1..Len(ppm.data) |->
        [x \in 1..Len(ppm.data[y]) |->
            IF y <= ppm.height /\ x <= ppm.width
            THEN Pixel(U8(U8(ppm.max) - ppm.data[y][x].R),
                       U8(U8(ppm.max) - ppm.data[y][x].G),
                       U8(U8(ppm.max) - ppm.data[y][x].B))
            ELSE ppm.data[y][x]]]]

\* the same loop with a copy in place of the swap: row[j] = row[width-j-1]
FlipRow_copy(row, width) ==
    [x \in 1..Len(row) |->
        IF x - 1 < width \div 2 THEN row[width - x + 1] ELSE row[x]]

\* one row after the loop "for j < width/2: swap row[j], row[width-j-1]"
FlipRow(row, width) ==
    [x \in 1..Len(row) |->
        IF x - 1 < width \div 2 \/ width - x < width \div 2
        THEN row[width - x + 1] ELSE row[x]]

\* Flip of PBM, PGM and PPM: the same loop over three sample types
FlipImg(g) ==
    [g EXCEPT !.data = [y \in 1..Len(g.data) |->
        IF y <= g.height THEN FlipRow(g.data[y], g.width) ELSE g.data[y]]]

\* Flop of PBM and PGM swaps the row slices i and height-i-1 for i < height/2
FlopImg(g) ==
    [g EXCEPT !.data = [y \in 1..Len(g.data) |->
        IF y - 1 < g.height \div 2 \/ g.height - y < g.height \div 2
        THEN g.data[g.height - y + 1] ELSE g.data[y]]]

\* Flop of PPM swaps the rows y and height-y-1 pixel by pixel, for x < width
FlopPPM(ppm) ==
    [ppm EXCEPT !.data = [y \in 1..Len(ppm.data) |->
        [x \in 1..Len(ppm.data[y]) |->
            IF x <= ppm.width /\
               (y - 1 < ppm.height \div 2 \/ ppm.height - y < ppm.height \div 2)
            THEN ppm.data[ppm.height - y + 1][x] ELSE ppm.data[y][x]]]]

\* the same with the swap of width and height forgotten
Rotate90CWImg_noswap(g) ==
    IF g.kind = "PGM" /\ (g.width <= 0 \/ g.height <= 0) THEN g
    ELSE [g EXCEPT !.data = [i \in 1..g.width |->
                                [j \in 1..g.height |-> g.data[g.height - j + 1][i]]]]

\* newData[i][j] = data[height-j-1][i], then width and height are swapped
Rotate90CWImg(g) ==
    IF g.kind = "PGM" /\ (g.width <= 0 \/ g.height <= 0) THEN g
    ELSE [g EXCEPT !.data = [i \in 1..g.width |->
                                [j \in 1..g.height |-> g.data[g.height - j + 1][i]]],
                   !.width = g.height,
                   !.height = g.width]

\* the same with <= in place of <
ToPBMfromPGM_le(pgm) ==
    PBM([y \in 1..pgm.height |->
            [x \in 1..pgm.width |-> pgm.data[y][x] <= U8(Quo(pgm.max, 2))]],
        pgm.width, pgm.height, "P1")

\* PGM.ToPBM
ToPBMfromPGM(pgm) ==
    PBM([y \in 1..pgm.height |->
            [x \in 1..pgm.width |-> pgm.data[y][x] < U8(Quo(pgm.max, 2))]],
        pgm.width, pgm.height, "P1")

\* PPM.ToPBM
ToPBMfromPPM(ppm) ==
    LET threshold == U8(Quo(ppm.max, 2))
        average(p) == (p.R + p.G + p.B) \div 3
    IN  PBM([y \in 1..ppm.height |->
                [x \in 1..ppm.width |-> average(ppm.data[y][x]) < threshold]],
            ppm.width, ppm.height, "P1")

\* the conversion of the documented copy: luminosity weights, and the max of
\* the PPM is kept
ToPGMfromPPM_luma(ppm) ==
    PGM([y \in 1..ppm.height |->
            [x \in 1..ppm.width |->
                (299 * ppm.data[y][x].R + 587 * ppm.data[y][x].G
                 + 114 * ppm.data[y][x].B) \div 1000]],
        ppm.width, ppm.height, "P2", ppm.max)

\* PPM.ToPGM: gray = uint8((float32(R) + float32(G) + float32(B)) / 3). The
\* sum is at most 765 and exact in float32; the float32 quotient of a sum
\* that 3 does not divide lies at least 1/3 away from the next integer, far
\* more than the rounding error, so the truncation is the integer quotient
ToPGMfromPPM(ppm) ==
    PGM([y \in 1..ppm.height |->
            [x \in 1..ppm.width |->
                (ppm.data[y][x].R + ppm.data[y][x].G + ppm.data[y][x].B) \div 3]],
        ppm.width, ppm.height, "P2", 255)

\* how the build converts a float64 that no uint8 can hold: the low byte of
\* the truncated value, or the nearest bound (the Go specification leaves
\* the result to the implementation)
Convs == {"wrap", "saturate"}

\* uint8(float64(v) * float64(maxValue) / float64(max)) for a sample v: the
\* quotient is truncated towards zero; max = 0 divides by zero (+Inf, or NaN
\* for 0/0)
ScaleSample(v, maxValue, max, conv) ==
    LET a == v * maxValue
        t == IF max > 0 THEN a \div max ELSE IF max < 0 THEN -(a \div (-max)) ELSE 0
    IN  IF max # 0 /\ t \in 0..255 THEN t
        ELSE IF conv = "wrap" THEN (IF max = 0 THEN 0 ELSE t % 256)
        ELSE IF max = 0 THEN (IF a > 0 THEN 255 ELSE 0)
        ELSE IF t > 255 THEN 255 ELSE 0

\* the same without the scaling of the samples: only the max is stored
SetMaxValuePGM_noscale(pgm, maxValue, conv) == [pgm EXCEPT !.max = maxValue]

\* PGM.SetMaxValue
SetMaxValuePGM(pgm, maxValue, conv) ==
    [pgm EXCEPT !.data = [y \in 1..Len(pgm.data) |->
                             [x \in 1..Len(pgm.data[y]) |->
                                 IF y <= pgm.height /\ x <= pgm.width
                                 THEN ScaleSample(pgm.data[y][x], maxValue, pgm.max, conv)
                                 ELSE pgm.data[y][x]]],
                !.max = maxValue]

\* PPM.SetMaxValue
SetMaxValuePPM(ppm, maxValue, conv) ==
    [ppm EXCEPT !.data = [y \in 1..Len(ppm.data) |->
                             [x \in 1..Len(ppm.data[y]) |->
                                 IF y <= ppm.height /\ x <= ppm.width
                                 THEN Pixel(ScaleSample(ppm.data[y][x].R, maxValue, ppm.max, conv),
                                            ScaleSample(ppm.data[y][x].G, maxValue, ppm.max, conv),
                                            ScaleSample(ppm.data[y][x].B, maxValue, ppm.max, conv))
                                 ELSE ppm.data[y][x]]],
                !.max = maxValue]

\* SetMagicNumber of PBM, PGM and PPM
SetMagicNumberImg(g, magicNumber) == [g EXCEPT !.magicNumber = magicNumber]

\* the assignment data[y][x] = value of Set
SetImg(g, x, y, value) == [g EXCEPT !.data[y + 1][x + 1] = value]

\* whether data[y][x] exists
InRange(g, x, y) ==
    /\ y >= 0 /\ y < Len(g.data)
    /\ x >= 0 /\ x < Len(g.data[y + 1])

\* PPM.KNearestNeighbors: the body of the function is empty
KNearestNeighborsImg(ppm, newWidth, newHeight) == ppm

----------------------------------------------------------------------------
(* The images and files the runs start from *)

\* no byte string: the file does not exist
NoFile == <<-1>>

Dims(n) == {d \in (1..n) \X (1..n) : d[1] * d[2] <= n}

\* the row of the bit-packing example, and rows that cross a byte boundary
ExampleRow == <<TRUE, FALSE, TRUE, FALSE, TRUE, FALSE, TRUE, FALSE, TRUE, TRUE>>
LongRows ==
    LET full == {ExampleRow,
                 [x \in 1..10 |-> TRUE],
                 [x \in 1..10 |-> x \in {1, 8, 9}],
                 [x \in 1..10 |-> x = 10]}
    IN  full \cup {SubSeq(r, 1, 9) : r \in full}

InitPBM ==
    UNION {{PBM(d, wh[1], wh[2], m) :
               d \in [1..wh[2] -> [1..wh[1] -> BOOLEAN]], m \in {"P1", "P4"}} :
           wh \in Dims(MaxPixB)}
    \cup {PBM(<<r>>, Len(r), 1, m) : r \in LongRows, m \in {"P1", "P4"}}
    \cup {PBM(<<r, ExampleRow>>, 10, 2, "P4") : r \in {q \in LongRows : Len(q) = 10}}

GMax == {1, 4, 255}
GSamples(max) == {0, max \div 2, (max \div 2) + 1, max} \cap (0..max)

InitPGM ==
    UNION {{PGM(d, wh[1], wh[2], m, max) :
               d \in [1..wh[2] -> [1..wh[1] -> GSamples(max)]], m \in {"P2", "P5"}} :
           wh \in Dims(MaxPixG), max \in GMax}

PMax == {3, 255}
Palette(max) == {Pixel(0, 0, 0), Pixel(max, max, max),
                 Pixel(max, 0, max \div 2)}

InitPPM ==
    UNION {{PPM(d, wh[1], wh[2], m, max) :
               d \in [1..wh[2] -> [1..wh[1] -> Palette(max)]], m \in {"P3", "P6"}} :
           wh \in Dims(MaxPixP), max \in PMax}
    \cup {PPM(<<<<Pixel(255, 0, 0), Pixel(0, 255, 0)>>,
                <<Pixel(0, 0, 255), Pixel(127, 127, 127)>>>>, 2, 2, m, 255) :
          m \in {"P3", "P6"}}

\* one row that does not fit the read buffer
WidePGM ==
    PGM(<<[x \in 1..(BufSize + WideExtra) |-> 0]>>, BufSize + WideExtra, 1, "P5", 255)

\* the images of the three types are kept apart: they are never compared
IsInitImage(g) == g \in InitPBM \/ g \in InitPGM \/ g \in InitPPM

\* P4 files with arbitrary payload bytes, the padding bits included
ByteSamples == {0, 255, 170, 193}
P4Dims == {<<1, 1>>, <<3, 1>>, <<8, 1>>, <<9, 1>>, <<10, 1>>, <<3, 2>>, <<10, 2>>}
P4Files ==
    UNION {{MagicBytes("P4") \o <<NL>> \o Itoa(wh[1]) \o <<SP>> \o Itoa(wh[2])
            \o <<NL>> \o payload :
               payload \in [1..(wh[2] * ((wh[1] + 7) \div 8)) -> ByteSamples]} :
           wh \in P4Dims}

\* PGM and PPM files whose header declares the max value 0
MaxZeroFiles ==
    {SavePGM([g EXCEPT !.max = 0]).bytes : g \in InitPGM}
    \cup {SavePPM([g EXCEPT !.max = 0]).bytes : g \in InitPPM}

InputFiles == P4Files \cup MaxZeroFiles

----------------------------------------------------------------------------
(* Operations *)

Kinds == {"PBM", "PGM", "PPM"}

\* one operation of the run: a run of bounded length stops when fuel is spent
Unbounded == -1
Spend ==
    /\ fuel # 0
    /\ fuel' = IF fuel = Unbounded THEN Unbounded ELSE fuel - 1

\* what a call did with its file: how often it opened and closed it, whether
\* it reached the Flush of its writer (TRUE for a call without a writer), and
\* how many bytes were still in the buffer of its writer when it closed it.
\* os.Open or os.Create, when it succeeds, is followed by defer file.Close():
\* the file is then closed on every return.
Stream(opened, n) ==
    [opened |-> opened, closed |-> opened, flushed |-> TRUE, unflushed |-> n]

\* how many bytes of a write of len bytes the file takes when it holds
\* written bytes and the file system has room for q bytes in all
Room(q, written, len) ==
    IF q = Unbounded THEN len ELSE Min({len, q - written})

\* A bufio.Writer is [n, written, err]: n bytes wait in the buffer, written
\* bytes are in the file, err is the error the writer keeps once a write
\* has failed.
\* writer.Flush(): a short write leaves the rest in the buffer
Flush(wr, q) ==
    IF wr.err # "nil" \/ wr.n = 0 THEN wr
    ELSE [n |-> wr.n - Room(q, wr.written, wr.n),
          written |-> wr.written + Room(q, wr.written, wr.n),
          err |-> IF Room(q, wr.written, wr.n) < wr.n THEN "short write" ELSE "nil"]

\* writer.Write(p) with len(p) = len: p is copied to the buffer; a p larger
\* than the free space fills and flushes the buffer, or goes straight to the
\* file when the buffer is empty
RECURSIVE WriterWrite(_, _, _)
WriterWrite(wr, len, q) ==
    IF wr.err # "nil" THEN wr
    ELSE IF len <= BufSize - wr.n THEN [wr EXCEPT !.n = wr.n + len]
    ELSE IF wr.n = 0
         THEN [n |-> 0,
               written |-> wr.written + Room(q, wr.written, len),
               err |-> IF Room(q, wr.written, len) < len THEN "short write" ELSE "nil"]
    ELSE WriterWrite(Flush([wr EXCEPT !.n = BufSize], q), len - (BufSize - wr.n), q)

\* the writes of one call, of lens[1], lens[2], ... bytes
RECURSIVE WriteAll(_, _, _)
WriteAll(wr, lens, q) ==
    IF lens = <<>> THEN wr
    ELSE WriteAll(WriterWrite(wr, Head(lens), q), Tail(lens), q)

\* the lengths of the writes of PGM.Save, saveP2PGM and saveP5PGM: the three
\* header lines, then every sample, space and newline (P2) or every row (P5)
WritesPGM(pgm) ==
    <<Len(MagicBytes(pgm.magicNumber)) + 1,
      Len(Itoa(pgm.width)) + Len(Itoa(pgm.height)) + 2,
      Len(Itoa(pgm.max)) + 1>>
    \o (IF \E y \in 1..Len(pgm.data) : Len(pgm.data[y]) # pgm.width THEN <<>>
        ELSE IF pgm.magicNumber = "P2"
        THEN Concat([y \in 1..pgm.height |->
                 Concat([x \in 1..pgm.width |->
                     <<Len(Itoa(pgm.data[y][x]))>>
                     \o (IF x < pgm.width THEN <<1>> ELSE <<>>)])
                 \o <<1>>])
        ELSE IF pgm.magicNumber = "P5" THEN [y \in 1..pgm.height |-> pgm.width]
        ELSE <<>>)

\* Save of the three types with its file: PBM.Save writes to the file and
\* returns the error of the first write that fails; PGM.Save writes through
\* a bufio.Writer, returns the first error and flushes only on the last
\* line; PPM.Save writes to the file and drops the result of every write
SaveStream(g, q) ==
    IF g.kind = "PBM"
    THEN LET r == SavePBM(g)
             k == Room(q, 0, Len(r.bytes))
         IN  [bytes |-> SubSeq(r.bytes, 1, k),
              err |-> IF k < Len(r.bytes) THEN "write error" ELSE r.err,
              stream |-> Stream(1, 0)]
    ELSE IF g.kind = "PGM"
    THEN LET r == SavePGM(g)
             writer == [n |-> 0, written |-> 0, err |-> "nil"]
             body == WriteAll(writer, WritesPGM(g), q)
             last == r.err = "nil" /\ body.err = "nil"
             wr == IF last THEN Flush(body, q) ELSE body
         IN  [bytes |-> SubSeq(r.bytes, 1, wr.written),
              err |-> IF wr.err # "nil" THEN "write error" ELSE r.err,
              stream |-> [Stream(1, wr.n) EXCEPT !.flushed = last]]
    ELSE LET r == SavePPM(g)
             k == Room(q, 0, Len(r.bytes))
         IN  [bytes |-> SubSeq(r.bytes, 1, k),
              err |-> r.err,
              stream |-> Stream(1, 0)]

\* ReadPBM / ReadPGM / ReadPPM on the file: the caller holds what is returned
Read(kind) ==
    \E r \in {IF disk = NoFile THEN Failed("open")
              ELSE IF kind = "PBM" THEN ReadPBM(disk)
              ELSE IF kind = "PGM" THEN ReadPGM(disk)
              ELSE ReadPPM(disk)} :
        /\ img' = r.img
        /\ ret' = r.err
        /\ lastOp' = "Read"
        /\ args' = <<kind>>
        /\ reps' = 1
        /\ snap' = Nil
        /\ stream' = IF disk = NoFile THEN Stream(0, 0) ELSE Stream(1, 0)
        /\ trace' = <<>>
        /\ Spend
        /\ UNCHANGED <<disk, saved>>

\* pbm.Save / pgm.Save / ppm.Save on a file system with room for q bytes
SaveTo(q) ==
    /\ img # Nil
    /\ \E r \in {SaveStream(img, q)} :
           /\ disk' = r.bytes
           /\ ret' = r.err
           /\ stream' = r.stream
    /\ saved' = img
    /\ lastOp' = "Save"
    /\ args' = <<>>
    /\ reps' = 1
    /\ snap' = Nil
    /\ trace' = <<>>
    /\ Spend
    /\ UNCHANGED img

\* Save on a file system that accepts every write
Save == SaveTo(Unbounded)

\* a transform op with arguments a that leaves the image new
Apply(op, a, new) ==
    /\ (lastOp = op /\ args = a) => reps < MaxReps
    /\ img' = new
    /\ lastOp' = op
    /\ args' = a
    /\ reps' = IF lastOp = op /\ args = a THEN reps + 1 ELSE 1
    /\ snap' = IF lastOp = op /\ args = a THEN snap ELSE img
    /\ trace' = <<>>
    /\ Spend
    /\ UNCHANGED <<disk, saved, ret, stream>>

Invert ==
    /\ img # Nil
    /\ Apply("Invert", <<>>, IF img.kind = "PBM" THEN InvertPBM(img)
                             ELSE IF img.kind = "PGM" THEN InvertPGM(img)
                             ELSE InvertPPM(img))

Flip ==
    /\ img # Nil
    /\ Apply("Flip", <<>>, FlipImg(img))

Flop ==
    /\ img # Nil
    /\ Apply("Flop", <<>>, IF img.kind = "PPM" THEN FlopPPM(img) ELSE FlopImg(img))

Rotate90CW ==
    /\ img # Nil
    /\ img.kind \in {"PGM", "PPM"}
    /\ Apply("Rotate90CW", <<>>, Rotate90CWImg(img))

\* the caller goes on with the PBM that ToPBM returns
ToPBM ==
    /\ img # Nil
    /\ img.kind \in {"PGM", "PPM"}
    /\ Apply("ToPBM", <<>>, IF img.kind = "PGM" THEN ToPBMfromPGM(img)
                            ELSE ToPBMfromPPM(img))

\* the caller goes on with the PGM that ToPGM returns
ToPGM ==
    /\ img # Nil
    /\ img.kind = "PPM"
    /\ Apply("ToPGM", <<>>, ToPGMfromPPM(img))

KNearestNeighbors ==
    /\ img # Nil
    /\ img.kind = "PPM"
    /\ \E newWidth \in 1..MaxNew, newHeight \in 1..MaxNew :
           Apply("KNearestNeighbors", <<newWidth, newHeight>>,
                 KNearestNeighborsImg(img, newWidth, newHeight))

\* a call that panics: the grid is left as it was
Panic(op, a) ==
    /\ ret' = "panic"
    /\ lastOp' = op
    /\ args' = a
    /\ reps' = 1
    /\ snap' = img
    /\ trace' = <<>>
    /\ Spend
    /\ UNCHANGED <<img, disk, saved, stream>>

\* the arguments Set is called with
Points(g) ==
    {<<0, 0>>, <<g.width - 1, g.height - 1>>, <<g.width, 0>>, <<0, g.height>>,
     <<-1, 0>>}
SetValues(kind) ==
    IF kind = "PBM" THEN BOOLEAN
    ELSE IF kind = "PGM" THEN {0, 255}
    ELSE {Pixel(0, 0, 0), Pixel(255, 0, 9)}

\* pbm.Set returns when (x, y) is outside width x height; pgm.Set and
\* ppm.Set index the data, and an index out of range panics
Set ==
    /\ img # Nil
    /\ \E p \in Points(img), value \in SetValues(img.kind) :
           IF img.kind = "PBM" /\ (p[1] < 0 \/ p[1] >= img.width
                                    \/ p[2] < 0 \/ p[2] >= img.height)
           THEN Apply("Set", <<p[1], p[2], value>>, img)
           ELSE IF InRange(img, p[1], p[2])
           THEN Apply("Set", <<p[1], p[2], value>>, SetImg(img, p[1], p[2], value))
           ELSE Panic("Set", <<p[1], p[2], value>>)

\* the tokens SetMagicNumber is called with
NewMagics == {"P1", "P5", "P7"}

SetMagicNumber ==
    /\ img # Nil
    /\ \E magicNumber \in NewMagics :
           Apply("SetMagicNumber", <<magicNumber>>, SetMagicNumberImg(img, magicNumber))

\* the values SetMaxValue is called with
NewMaxes == {0, 1, 5, 255}

SetMaxValue ==
    /\ img # Nil
    /\ img.kind \in {"PGM", "PPM"}
    /\ \E maxValue \in NewMaxes, conv \in Convs :
           Apply("SetMaxValue", <<maxValue>>,
                 IF img.kind = "PGM" THEN SetMaxValuePGM(img, maxValue, conv)
                 ELSE SetMaxValuePPM(img, maxValue, conv))

----------------------------------------------------------------------------
(* Specifications *)

InitHistory ==
    /\ saved = Nil
    /\ ret = "nil"
    /\ lastOp = "init"
    /\ args = <<>>
    /\ reps = 0
    /\ snap = Nil
    /\ stream = Stream(0, 0)
    /\ trace = <<>>
    /\ fuel = Unbounded

\* codecs: the run starts with an image in memory or with a file on disk
InitCodec ==
    /\ \/ (IsInitImage(img) \/ img = WidePGM) /\ disk = NoFile
       \/ img = Nil /\ disk \in InputFiles
    /\ InitHistory

NextCodec == Save \/ \E kind \in Kinds : Read(kind)

SpecCodec == InitCodec /\ [][NextCodec]_vars

\* transforms of an image in memory
InitTransform ==
    /\ IsInitImage(img)
    /\ disk = NoFile
    /\ InitHistory

NextTransform ==
    Invert \/ Flip \/ Flop \/ Rotate90CW \/ ToPBM \/ ToPGM \/ KNearestNeighbors

SpecTransform == InitTransform /\ [][NextTransform]_vars

----------------------------------------------------------------------------
(* Properties *)

\* the data-model invariants of an image
ValidGrid(g) ==
    /\ g.width > 0 /\ g.height > 0
    /\ Len(g.data) = g.height
    /\ \A y \in 1..Len(g.data) : Len(g.data[y]) = g.width
    /\ g.kind = "PBM" => g.magicNumber \in {"P1", "P4"}
    /\ g.kind = "PGM" =>
           /\ g.magicNumber \in {"P2", "P5"}
           /\ g.max \in 1..255
           /\ \A y \in 1..g.height, x \in 1..g.width : g.data[y][x] <= g.max
    /\ g.kind = "PPM" =>
           /\ g.magicNumber \in {"P3", "P6"}
           /\ g.max \in 1..255
           /\ \A y \in 1..g.height, x \in 1..g.width :
                  /\ g.data[y][x].R <= g.max
                  /\ g.data[y][x].G <= g.max
                  /\ g.data[y][x].B <= g.max

\* a valid image was saved and the file was read back with its own reader
ReadBack ==
    /\ lastOp = "Read"
    /\ saved # Nil
    /\ ValidGrid(saved)
    /\ args = <<saved.kind>>

\* C1: Save followed by Read of the written bytes returns an image with the
\* same width, height, magic number, max and pixel data, for every valid image.
SameImage(g, h) == g.kind = h.kind /\ g = h

C1_RoundTrip == ReadBack => (ret = "nil" /\ SameImage(img, saved))

\* the round trip of the images whose file fits the read buffer
C1_RoundTripSmall ==
    (ReadBack /\ Len(disk) <= BufSize) => (ret = "nil" /\ SameImage(img, saved))

\* the bytes of a file after its n-th newline
PayloadAfter(file, n) ==
    LET nls == {i \in 1..Len(file) : file[i] = NL}
        nth == CHOOSE i \in nls : Cardinality({j \in nls : j <= i}) = n
    IN  SubSeq(file, nth + 1, Len(file))

\* a P4 image was written without error
SavedP4 ==
    /\ lastOp = "Save"
    /\ ret = "nil"
    /\ saved.kind = "PBM"
    /\ saved.magicNumber = "P4"

\* C2: Save of a P4 image writes ceil(w/8) bytes per row; bit 7-(x mod 8) of
\* byte x/8 of a row is 1 exactly when the pixel at column x is set, the bits
\* beyond column w-1 are 0, and the example row of width 10 gives 170, 192.
C2_P4Encode ==
    SavedP4 =>
        LET w == saved.width
            h == saved.height
            rb == (w + 7) \div 8
            pay == PayloadAfter(disk, 2)
        IN  /\ Len(pay) = h * rb
            /\ \A y \in 0..(h - 1), b \in 0..(rb - 1), k \in 0..7 :
                   /\ pay[y * rb + b + 1] \in 0..255
                   /\ (Bit(pay[y * rb + b + 1], 7 - k) = 1)
                          <=> (8 * b + k < w /\ saved.data[y + 1][8 * b + k + 1])
            /\ \A y \in 0..(h - 1) :
                   saved.data[y + 1] = ExampleRow =>
                       SubSeq(pay, y * rb + 1, y * rb + rb) = <<170, 192>>

\* the example row of width 10 was written in binary
C2_Witness ==
    /\ SavedP4
    /\ saved.width = 10
    /\ saved.data[1] = ExampleRow

\* a P4 file was decoded without error
ReadP4 ==
    /\ lastOp = "Read"
    /\ args = <<"PBM">>
    /\ ret = "nil"
    /\ img.magicNumber = "P4"

\* the file with the padding bits of every row of the payload set to v
SetPad(file, w, h, v) ==
    LET rb == (w + 7) \div 8
        pad == Pow2(8 * rb - w)
        start == Len(file) - Len(PayloadAfter(file, 2))
    IN  [i \in 1..Len(file) |->
            IF i > start /\ i <= start + h * rb /\ (i - start) % rb = 0
            THEN (file[i] - (file[i] % pad)) + v * (pad - 1)
            ELSE file[i]]

\* C3: decoding P4 takes ceil(w/8) bytes per row; the pixel at column x is
\* bit 7-(x mod 8) of byte x/8 of its row; the bits of the last byte beyond
\* column w-1 do not change the decoded image.
C3_P4Decode ==
    ReadP4 =>
        LET w == img.width
            h == img.height
            rb == (w + 7) \div 8
            pay == PayloadAfter(disk, 2)
        IN  /\ Len(img.data) = h
            /\ \A y \in 0..(h - 1) :
                   /\ Len(img.data[y + 1]) = w
                   /\ \A x \in 0..(w - 1) :
                          img.data[y + 1][x + 1]
                              <=> (Bit(pay[y * rb + (x \div 8) + 1], 7 - (x % 8)) = 1)
            /\ \A v \in {0, 1} :
                   LET r == ReadPBM(SetPad(disk, w, h, v))
                   IN  r.err = "nil" /\ r.img = img

\* a row of width 10 was decoded whose padding bits are not all zero
C3_Witness ==
    /\ ReadP4
    /\ img.width = 10
    /\ PayloadAfter(disk, 2)[2] % 64 # 0
    /\ img.data[1] = ExampleRow

\* C4: Flip applied twice, and Flop applied twice, give back the image:
\* same width, height and pixel at every position.
C4_MirrorInvolution ==
    (lastOp \in {"Flip", "Flop"} /\ reps % 2 = 0) => SameImage(img, snap)

\* an image of odd width that is not its own mirror image was flipped twice
C4_Witness ==
    /\ lastOp = "Flip"
    /\ reps = 2
    /\ img.width = 3
    /\ img.data[1][1] # img.data[1][3]

\* C5: Invert applied twice restores every pixel and leaves width, height
\* and max unchanged.
C5_InvertInvolution ==
    (lastOp = "Invert" /\ reps % 2 = 0) => SameImage(img, snap)

\* a colour image with a pixel that is not grey was inverted twice
C5_Witness ==
    /\ lastOp = "Invert"
    /\ reps = 2
    /\ img.kind = "PPM"
    /\ img.data[1][1].R # img.data[1][1].G

\* C6: one Rotate90CW swaps the stored width and height, the data then has
\* (old width) rows of (old height) samples with output[x][height-1-y] =
\* input[y][x]; four applications give back the image.
C6_Rotate ==
    lastOp = "Rotate90CW" =>
        /\ Len(img.data) = img.height
        /\ \A y \in 1..Len(img.data) : Len(img.data[y]) = img.width
        /\ reps % 2 = 1 => (img.width = snap.height /\ img.height = snap.width)
        /\ reps % 2 = 0 => (img.width = snap.width /\ img.height = snap.height)
        /\ reps = 1 =>
               \A y \in 0..(snap.height - 1), x \in 0..(snap.width - 1) :
                   img.data[x + 1][snap.height - 1 - y + 1] = snap.data[y + 1][x + 1]
        /\ reps = 4 => SameImage(img, snap)

\* an image that is not square and not uniform was rotated four times
C6_Witness ==
    /\ lastOp = "Rotate90CW"
    /\ reps = 4
    /\ snap.width = 3
    /\ snap.height = 1
    /\ snap.data[1][1] # snap.data[1][3]

\* the image a conversion was applied to is the PGM image snap
ConvertedPGM ==
    /\ lastOp = "ToPBM"
    /\ snap.kind = "PGM"

\* C7: a PGM pixel whose value is exactly max/2 is not set in the PBM image
\* that ToPBM returns.
C7_ThresholdEdge ==
    ConvertedPGM =>
        \A y \in 1..snap.height, x \in 1..snap.width :
            snap.data[y][x] = snap.max \div 2 => ~img.data[y][x]

\* a PGM image with max 255 and a pixel of value 127 was converted
C7_Witness ==
    /\ ConvertedPGM
    /\ snap.max = 255
    /\ \E y \in 1..snap.height, x \in 1..snap.width : snap.data[y][x] = 127

\* the value ToPBM compares: the sample of a PGM, the mean of R, G, B of a PPM
SourceValue(g, y, x) ==
    IF g.kind = "PGM" THEN g.data[y][x]
    ELSE (g.data[y][x].R + g.data[y][x].G + g.data[y][x].B) \div 3

\* C8: a pixel of the PBM image returned by ToPBM is set exactly when the
\* source value is strictly greater than max/2; width and height are kept.
C8_ThresholdDirection ==
    lastOp = "ToPBM" =>
        /\ img.width = snap.width
        /\ img.height = snap.height
        /\ \A y \in 1..snap.height, x \in 1..snap.width :
               img.data[y][x] <=> (SourceValue(snap, y, x) > snap.max \div 2)

\* the n-th line of a file, without its newline
Line(file, n) ==
    LET nls == {i \in 1..Len(file) : file[i] = NL}
        end == CHOOSE i \in nls : Cardinality({j \in nls : j <= i}) = n
        before == {j \in nls : j < end}
    IN  SubSeq(file, IF before = {} THEN 1 ELSE Max(before) + 1, end - 1)

\* a file of at least three lines with a magic number of the reader's
\* family, positive dimensions and the max value 0
DeclaresMaxZero(file, kind) ==
    /\ file # NoFile
    /\ Cardinality({i \in 1..Len(file) : file[i] = NL}) >= 3
    /\ \/ kind = "PGM" /\ Line(file, 1) \in {MagicBytes("P2"), MagicBytes("P5")}
       \/ kind = "PPM" /\ Line(file, 1) \in {MagicBytes("P3"), MagicBytes("P6")}
    /\ \E w \in 1..9, h \in 1..9 : Line(file, 2) = Itoa(w) \o <<SP>> \o Itoa(h)
    /\ Line(file, 3) = <<48>>

\* C9: decoding a PGM or PPM file whose header declares max = 0 fails with
\* an invalid-max-value error and produces no image.
C9_MaxZeroRejected ==
    (lastOp = "Read" /\ DeclaresMaxZero(disk, args[1])) =>
        (img = Nil /\ ret = "invalid max value")

\* C10: KNearestNeighbors(newWidth, newHeight) leaves an image of that size
\* whose pixel (x, y) is the source pixel (x*width/newWidth, y*height/newHeight).
C10_NearestNeighbour ==
    (lastOp = "KNearestNeighbors" /\ reps = 1) =>
        LET newWidth == args[1]
            newHeight == args[2]
        IN  /\ img.width = newWidth
            /\ img.height = newHeight
            /\ Len(img.data) = newHeight
            /\ \A y \in 0..(newHeight - 1) :
                   /\ Len(img.data[y + 1]) = newWidth
                   /\ \A x \in 0..(newWidth - 1) :
                          img.data[y + 1][x + 1] =
                              snap.data[((y * snap.height) \div newHeight) + 1]
                                       [((x * snap.width) \div newWidth) + 1]

----------------------------------------------------------------------------
(* Decoding of well-formed and malformed files *)

\* offset of the n-th newline of a file (0 for n = 0)
NthNL(file, n) ==
    LET nls == {i \in 1..Len(file) : file[i] = NL}
    IN  IF n = 0 THEN 0
        ELSE CHOOSE i \in nls : Cardinality({j \in nls : j <= i}) = n

\* number of newlines of a file
NumLines(file) == Cardinality({i \in 1..Len(file) : file[i] = NL})

\* the file with its n-th line replaced by the bytes new
ReplaceLine(file, n, new) ==
    SubSeq(file, 1, NthNL(file, n - 1)) \o new
        \o SubSeq(file, NthNL(file, n), Len(file))

\* the file with the line new inserted before its n-th line
InsertLine(file, n, new) ==
    SubSeq(file, 1, NthNL(file, n - 1)) \o new \o <<NL>>
        \o SubSeq(file, NthNL(file, n - 1) + 1, Len(file))

\* one 2 x 2 image of each of the six encodings, written by Save
BasePBM(m) == PBM(<<<<TRUE, FALSE>>, <<FALSE, TRUE>>>>, 2, 2, m)
BasePGM(m) == PGM(<<<<0, 4>>, <<2, 3>>>>, 2, 2, m, 4)
BasePPM(m) ==
    PPM(<<<<Pixel(0, 0, 0), Pixel(3, 3, 3)>>,
          <<Pixel(3, 0, 1), Pixel(0, 2, 0)>>>>, 2, 2, m, 3)

GoodPBMFiles == {SavePBM(BasePBM(m)).bytes : m \in {"P1", "P4"}}
GoodPGMFiles == {SavePGM(BasePGM(m)).bytes : m \in {"P2", "P5"}}
GoodPPMFiles == {SavePPM(BasePPM(m)).bytes : m \in {"P3", "P6"}}
GoodFiles == GoodPBMFiles \cup GoodPGMFiles \cup GoodPPMFiles

\* every file cut short: the stream ends in the header or in a row
TruncatedFiles == UNION {{SubSeq(f, 1, k) : k \in 0..(Len(f) - 1)} : f \in GoodFiles}

\* first lines: the six magic numbers, "P7", "p1" and the empty line
MagicLines ==
    {MagicBytes(m) : m \in {"P1", "P2", "P3", "P4", "P5", "P6", "P7"}}
        \cup {<<112, 49>>, <<>>}

\* second lines: "0 0", "0 2", "2 0", "-1 2", "2 -1", "2", "x y", "2 x", ""
DimLines ==
    {Itoa(w) \o <<SP>> \o Itoa(h) : w \in {0, 2}, h \in {0}}
    \cup {Itoa(0) \o <<SP>> \o Itoa(2)}
    \cup {Itoa(-1) \o <<SP>> \o Itoa(2), Itoa(2) \o <<SP>> \o Itoa(-1),
          Itoa(2), <<120, SP, 121>>, <<50, SP, 120>>, <<>>}

\* third lines of PGM and PPM: "0", "300", "-1", "x", ""
MaxLines == {Itoa(0), Itoa(300), Itoa(-1), <<120>>, <<>>}

\* a comment line: "# c"
CommentLine == <<35, SP, 99>>

\* rows of an ASCII payload with too few, too many or malformed tokens
BadRowsP1 == {<<49>>, <<49, SP, 48, SP, 49>>, <<49, SP, 50>>, <<49, 48>>, <<>>}
BadRowsP2 ==
    {<<52>>, <<48, SP, 52, SP, 50>>, <<48, SP, 57>>, <<48, SP, 50, 53, 54>>,
     <<48, SP, 120>>, <<>>}
BadRowsP3 ==
    {<<48, SP, 48, SP, 48, SP, 51, SP, 51>>,
     <<48, SP, 48, SP, 48>>,
     <<48, SP, 48, SP, 48, SP, 51, SP, 51, SP, 51, SP, 49>>,
     <<48, SP, 48, SP, 48, SP, 51, SP, 51, SP, 57>>,
     <<48, SP, 48, SP, 48, SP, 120, SP, 51, SP, 51>>,
     <<>>}

\* the ASCII files with one row of the payload replaced
BadRowFiles ==
    {ReplaceLine(SavePBM(BasePBM("P1")).bytes, 2 + y, r) :
        y \in {1, 2}, r \in BadRowsP1}
    \cup {ReplaceLine(SavePGM(BasePGM("P2")).bytes, 3 + y, r) :
        y \in {1, 2}, r \in BadRowsP2}
    \cup {ReplaceLine(SavePPM(BasePPM("P3")).bytes, 3 + y, r) :
        y \in {1, 2}, r \in BadRowsP3}

\* binary files with a sample above the max value of the header
BadSampleFiles ==
    {SavePGM([BasePGM("P5") EXCEPT !.data[2][1] = 255]).bytes,
     SavePPM([BasePPM("P6") EXCEPT !.data[1][2] = Pixel(3, 200, 3)]).bytes}

\* the files the decoders are given: the well-formed ones and each of them
\* with one header line replaced, a comment line inserted, one row replaced
\* or the end cut off
DecodeFiles ==
    GoodFiles \cup TruncatedFiles \cup BadRowFiles \cup BadSampleFiles
    \cup {ReplaceLine(f, 1, l) : f \in GoodFiles, l \in MagicLines}
    \cup {ReplaceLine(f, 2, l) : f \in GoodFiles, l \in DimLines}
    \cup {ReplaceLine(f, 3, l) : f \in GoodPGMFiles \cup GoodPPMFiles, l \in MaxLines}
    \cup {InsertLine(f, 2, CommentLine) : f \in GoodFiles}
    \cup {InsertLine(f, 3, CommentLine) : f \in GoodPGMFiles \cup GoodPPMFiles}

InitDecode ==
    /\ img = Nil
    /\ disk \in DecodeFiles
    /\ InitHistory

NextDecode == \E kind \in Kinds : Read(kind)

SpecDecode == InitDecode /\ [][NextDecode]_vars

\* C11: a decode that returns an error returns no grid, and a decode that
\* returns a grid returns no error, whatever the file holds.
C11_NoPartialGrid ==
    lastOp = "Read" => ((ret # "nil") <=> (img = Nil))

\* a binary PGM file ends in its second row, after the first row was decoded
C11_Witness ==
    /\ lastOp = "Read"
    /\ args = <<"PGM">>
    /\ NumLines(disk) >= 3
    /\ Line(disk, 1) = MagicBytes("P5")
    /\ Len(disk) = NthNL(disk, 3) + 3
    /\ ret = "unexpected end of file"
    /\ img = Nil

\* what the decoder of a kind returns for a file
ReadAs(kind, file) ==
    IF kind = "PBM" THEN ReadPBM(file)
    ELSE IF kind = "PGM" THEN ReadPGM(file)
    ELSE ReadPPM(file)

\* the two magic-number tokens of a format family: "P1" "P4", "P2" "P5",
\* "P3" "P6"
Family(kind) ==
    IF kind = "PBM" THEN {<<80, 49>>, <<80, 52>>}
    ELSE IF kind = "PGM" THEN {<<80, 50>>, <<80, 53>>}
    ELSE {<<80, 51>>, <<80, 54>>}

\* number of header lines of a family
HeaderLines(kind) == IF kind = "PBM" THEN 2 ELSE 3

\* the last Read was given a file whose first line is a token of its family
ReadOwnFamily ==
    /\ lastOp = "Read"
    /\ NumLines(disk) >= 2
    /\ Line(disk, 1) \in Family(args[1])

\* the second line declares a positive width and a positive height
DeclaresPositiveDims(file) ==
    \E w \in 1..9, h \in 1..9 : Line(file, 2) = Itoa(w) \o <<SP>> \o Itoa(h)

\* C14: a decoder given a header whose second line declares a width or a
\* height that is zero, negative or no integer fails with an
\* invalid-dimensions error and returns no grid.
C14_BadDimensions ==
    (ReadOwnFamily /\ ~DeclaresPositiveDims(disk)) =>
        (ret = "invalid dimensions" /\ img = Nil)

RemoveLine(file, n) ==
    SubSeq(file, 1, NthNL(file, n - 1)) \o SubSeq(file, NthNL(file, n) + 1, Len(file))

\* the header lines after the first that start with '#'
CommentLines(file, kind) ==
    {n \in 2..HeaderLines(kind) :
        /\ NumLines(file) >= n
        /\ Line(file, n) # <<>>
        /\ Line(file, n)[1] = 35}

\* C16: a file with a comment line between two header tokens decodes to the
\* grid of the same file without the comment line.
C16_HeaderComments ==
    ReadOwnFamily =>
        \A n \in CommentLines(disk, args[1]) :
            LET plain == ReadAs(args[1], RemoveLine(disk, n))
            IN  ret = plain.err /\ img = plain.img

\* the bytes of a file after its header
Payload(file, kind) == SubSeq(file, NthNL(file, HeaderLines(kind)) + 1, Len(file))

\* a header of the family of kind that declares a 2 x 2 image and, for PGM
\* and PPM, a max value in 1..255
Header2x2(file, kind) ==
    /\ NumLines(file) >= HeaderLines(kind)
    /\ Line(file, 1) \in Family(kind)
    /\ Line(file, 2) = Itoa(2) \o <<SP>> \o Itoa(2)
    /\ kind # "PBM" => \E m \in 1..255 : Line(file, 3) = Itoa(m)

\* samples of one pixel
Channels(kind) == IF kind = "PPM" THEN 3 ELSE 1

\* a 2 x 2 payload with a row that holds fewer tokens (ASCII) or fewer bytes
\* (binary) than the two pixels of a row need
ShortRow(file, kind) ==
    /\ Header2x2(file, kind)
    /\ IF Line(file, 1) \in {<<80, 49>>, <<80, 50>>, <<80, 51>>}
       THEN \E y \in 1..2 :
               \/ NumLines(file) < HeaderLines(kind) + y
               \/ Len(Fields(Line(file, HeaderLines(kind) + y))) < 2 * Channels(kind)
       ELSE Len(Payload(file, kind)) <
                2 * (IF kind = "PBM" THEN 1 ELSE 2 * Channels(kind))

\* C17: decoding a payload with a row shorter than the header's dimensions
\* require fails and returns no grid (any error is accepted here as the
\* unexpected-end-of-data error).
C17_ShortRows ==
    (lastOp = "Read" /\ ShortRow(disk, args[1])) => (ret # "nil" /\ img = Nil)

\* a token that is a decimal number
IsNumber(t) == t # <<>> /\ \A i \in 1..Len(t) : IsDigit(t[i])

\* a 2 x 2 ASCII payload with a token that is no sample: for P1 a token other
\* than "0" and "1", for P2 a number above the max value of the header
BadToken(file, kind) ==
    /\ Header2x2(file, kind)
    /\ LET tokens == Fields(Payload(file, kind))
       IN  \E i \in 1..Len(tokens) :
               \/ /\ Line(file, 1) = <<80, 49>>
                  /\ tokens[i] \notin {<<48>>, <<49>>}
               \/ /\ Line(file, 1) = <<80, 50>>
                  /\ IsNumber(tokens[i])
                  /\ DigitsVal(tokens[i]) > DigitsVal(Line(file, 3))

\* C18: ReadPBM fails on a P1 token other than "0" and "1", and ReadPGM
\* fails on a P2 sample above the max value of the header; no grid is
\* returned.
C18_BadTokens ==
    (lastOp = "Read" /\ BadToken(disk, args[1])) => (ret # "nil" /\ img = Nil)

----------------------------------------------------------------------------
(* Runs of bounded length: a decode or an image in memory, then accessors, *)
(* transforms and Save in any order                                        *)

\* an image that is not square
FlatPGM(m) == PGM(<<<<0, 4, 2>>>>, 3, 1, m, 4)
TallPPM(m) == PPM(<<<<Pixel(0, 0, 0)>>, <<Pixel(3, 0, 1)>>>>, 1, 2, m, 3)

\* files the runs start from: the well-formed ones, an empty image, a short
\* row, samples above the max value and max values outside 1..255
EditFiles ==
    {SavePBM(BasePBM("P4")).bytes, SavePGM(BasePGM("P2")).bytes,
     SavePPM(BasePPM("P6")).bytes,
     ReplaceLine(SavePBM(BasePBM("P1")).bytes, 2, Itoa(0) \o <<SP>> \o Itoa(0)),
     ReplaceLine(SavePGM(BasePGM("P2")).bytes, 4, <<52>>),
     ReplaceLine(SavePGM(BasePGM("P5")).bytes, 3, Itoa(0)),
     ReplaceLine(SavePPM(BasePPM("P3")).bytes, 3, Itoa(300)),
     SavePGM(FlatPGM("P5")).bytes}
    \cup BadSampleFiles

\* images the runs start from
EditImages(kind) ==
    IF kind = "PBM" THEN {BasePBM("P1")}
    ELSE IF kind = "PGM" THEN {BasePGM("P5"), FlatPGM("P2")}
    ELSE {BasePPM("P3"), TallPPM("P6")}

InitEdit ==
    /\ \/ img = Nil /\ disk \in EditFiles
       \/ disk = NoFile /\ \E kind \in Kinds : img \in EditImages(kind)
    /\ saved = Nil
    /\ ret = "nil"
    /\ lastOp = "init"
    /\ args = <<>>
    /\ reps = 0
    /\ snap = Nil
    /\ stream = Stream(0, 0)
    /\ trace = <<>>
    /\ fuel = MaxSteps

NextEdit ==
    \/ \E kind \in Kinds : Read(kind)
    \/ Save
    \/ Invert
    \/ Flip
    \/ Flop
    \/ Rotate90CW
    \/ Set
    \/ SetMagicNumber
    \/ SetMaxValue

SpecEdit == InitEdit /\ [][NextEdit]_vars

\* C12: after a successful decode and after any sequence of Invert, Flip,
\* Flop, Rotate90CW, SetMaxValue, SetMagicNumber and Set calls, the grid has
\* exactly height rows and every row has exactly width samples.
C12_Shape ==
    img # Nil =>
        /\ Len(img.data) = img.height
        /\ \A y \in 1..Len(img.data) : Len(img.data[y]) = img.width

\* a file that is not square was decoded, rescaled and then rotated
C12_Witness ==
    /\ lastOp = "Rotate90CW"
    /\ fuel = 0
    /\ disk # NoFile
    /\ img.max = 5
    /\ img.width = 1
    /\ img.height = 3

\* every sample component of a PGM or PPM grid is at most the stored max
SamplesInRange(g) ==
    /\ g.kind = "PGM" =>
           \A y \in 1..Len(g.data) : \A x \in 1..Len(g.data[y]) :
               g.data[y][x] <= g.max
    /\ g.kind = "PPM" =>
           \A y \in 1..Len(g.data) : \A x \in 1..Len(g.data[y]) :
               /\ g.data[y][x].R <= g.max
               /\ g.data[y][x].G <= g.max
               /\ g.data[y][x].B <= g.max

\* C13: after a successful ReadPGM or ReadPPM and after any sequence of
\* mutations, the stored max is in 1..255 and every sample component of the
\* grid is at most the stored max.
C13_SampleRange ==
    (img # Nil /\ img.kind \in {"PGM", "PPM"}) =>
        (img.max \in 1..255 /\ SamplesInRange(img))

\* C19: Save of a grid whose magic number is not one of the two tokens of
\* its format returns an error.
C19_SaveRejectsMagic ==
    (lastOp = "Save" /\ MagicBytes(saved.magicNumber) \notin Family(saved.kind)) =>
        ret # "nil"

C21_SetMaxValueZeroMax ==
    [][(lastOp' = "SetMaxValue" /\ img.max = 0) =>
          (ret' = "panic" /\ img' = img)]_vars

----------------------------------------------------------------------------
(* Drawing on a PPM canvas.  A Point is the pair <<X, Y>>.                 *)

CanvasW == 4      \* width of the canvases
CanvasH == 3      \* height of the canvases
MaxDepth == 2     \* the fractals are drawn with depths 0..MaxDepth

Abs(x) == IF x < 0 THEN -x ELSE x

\* PPM.SetPixel for the points of pts, one after the other, with one colour:
\* a pixel of the canvas holds the colour when its place is one of the
\* points; a point outside width x height is passed over
SetPixels(ppm, pts, color) ==
    [ppm EXCEPT !.data =
        [y \in 1..ppm.height |->
            [x \in 1..ppm.width |->
                IF \E i \in 1..Len(pts) : pts[i] = <<x - 1, y - 1>>
                THEN color ELSE ppm.data[y][x]]]]

\* a drawing call that returns: the canvas it leaves and the points it gave
\* to SetPixel
Plotted(ppm, pts, color) ==
    [img |-> SetPixels(ppm, pts, color), err |-> "nil", trace |-> pts]

\* PPM.Set for the points of pts, one after the other: data[y][x] is
\* written without a test, and the first index out of range panics with
\* the earlier writes done (done: the points given to Set so far)
RECURSIVE SetAll(_, _, _, _)
SetAll(ppm, pts, color, done) ==
    IF pts = <<>> THEN [img |-> ppm, err |-> "nil", trace |-> done]
    ELSE IF ~InRange(ppm, Head(pts)[1], Head(pts)[2])
         THEN [img |-> ppm, err |-> "panic", trace |-> Append(done, Head(pts))]
    ELSE SetAll(SetImg(ppm, Head(pts)[1], Head(pts)[2], color), Tail(pts), color,
                Append(done, Head(pts)))

\* the loop of DrawLine(p1, p2) at the point p with the error term err: the
\* points given to SetPixel from p on.  cap stops the unfolding of a loop
\* that does not reach p2.
RECURSIVE LineLoop(_, _, _, _, _)
LineLoop(p, err, p1, p2, cap) ==
    IF p = p2 \/ cap = 0 THEN <<p>>
    ELSE LET dx == Abs(p2[1] - p1[1])
             dy == Abs(p2[2] - p1[2])
             sx == IF p1[1] < p2[1] THEN 1 ELSE -1
             sy == IF p1[2] < p2[2] THEN 1 ELSE -1
             stepX == 2 * err > -dy
             stepY == 2 * err < dx
         IN  <<p>> \o LineLoop(<<p[1] + (IF stepX THEN sx ELSE 0),
                                 p[2] + (IF stepY THEN sy ELSE 0)>>,
                               err - (IF stepX THEN dy ELSE 0)
                                   + (IF stepY THEN dx ELSE 0),
                               p1, p2, cap - 1)

\* the line of the older copy: steps = max(dx, dy) points after p1, each
\* (dx / steps, dy / steps) further in integer arithmetic; p1 = p2 divides
\* by zero
DrawLinePoints_inc(p1, p2) ==
    LET dx == Abs(p2[1] - p1[1])
        dy == Abs(p2[2] - p1[2])
        steps == Max({dx, dy})
        xInc == (IF p2[1] > p1[1] THEN 1 ELSE IF p2[1] < p1[1] THEN -1 ELSE 0)
                * (dx \div steps)
        yInc == (IF p2[2] > p1[2] THEN 1 ELSE IF p2[2] < p1[2] THEN -1 ELSE 0)
                * (dy \div steps)
    IN  IF steps = 0 THEN <<>>
        ELSE [i \in 1..(steps + 1) |->
                 <<p1[1] + (i - 1) * xInc, p1[2] + (i - 1) * yInc>>]

\* PPM.DrawLine: the points given to SetPixel, in order.  The loop is
\* unfolded for more iterations than any line between p1 and p2 has points.
DrawLinePoints(p1, p2) ==
    LineLoop(p1, Abs(p2[1] - p1[1]) - Abs(p2[2] - p1[2]), p1, p2,
             2 * (Abs(p2[1] - p1[1]) + Abs(p2[2] - p1[2])) + 2)

\* DrawLine for the segments <<p1, p2>> of segs, one after the other
Lines(segs) == Concat([i \in 1..Len(segs) |-> DrawLinePoints(segs[i][1], segs[i][2])])

\* the four sides DrawRectangle and DrawFilledRectangle draw
RectangleSides(p1, width, height) ==
    LET p2 == <<p1[1] + width, p1[2]>>
        p3 == <<p1[1] + width, p1[2] + height>>
        p4 == <<p1[1], p1[2] + height>>
    IN  <<<<p1, p2>>, <<p2, p3>>, <<p3, p4>>, <<p4, p1>>>>

\* the inside DrawFilledRectangle fills, row by row
RectangleInside(p1, width, height) ==
    Concat([j \in 1..(height - 1) |->
               [i \in 1..(width - 1) |-> <<p1[1] + i, p1[2] + j>>]])

\* DrawCircle: the points given to Set.  x runs over the rows and y over the
\* columns of the canvas, and a point whose distance d from the centre is
\* radius - 1 < d < radius is given to Set as (x, y); four points at
\* radius - 1 from the centre follow.  The distances are compared squared.
CirclePoints(ppm, center, radius) ==
    LET OnRing(q) ==
            LET d2 == (q[1] - center[1]) * (q[1] - center[1])
                      + (q[2] - center[2]) * (q[2] - center[2])
            IN  /\ radius > 0
                /\ d2 < radius * radius
                /\ d2 > (radius - 1) * (radius - 1)
        grid == Concat([x \in 1..ppm.height |->
                           [y \in 1..ppm.width |-> <<x - 1, y - 1>>]])
    IN  SelectSeq(grid, OnRing)
        \o <<<<center[1] - (radius - 1), center[2]>>,
             <<center[1] + (radius - 1), center[2]>>,
             <<center[1], center[2] + (radius - 1)>>,
             <<center[1], center[2] - (radius - 1)>>>>

\* the second half of DrawFilledCircle: in every row that holds the colour
\* more than once, the pixels between its first and its last are set
FillRows(ppm, color) ==
    LET First(row) == Min({j \in 1..Len(row) : row[j] = color})
        Last(row) == Max({j \in 1..Len(row) : row[j] = color})
        Many(row) == Cardinality({j \in 1..Len(row) : row[j] = color}) > 1
    IN  [ppm EXCEPT !.data =
            [i \in 1..ppm.height |->
                [j \in 1..ppm.width |->
                    IF /\ Many(ppm.data[i])
                       /\ First(ppm.data[i]) < j
                       /\ j < Last(ppm.data[i])
                    THEN color ELSE ppm.data[i][j]]]]

\* 866025 / 1000000 stands for math.Sin(math.Pi / 3) and math.Sqrt(3) / 2:
\* for the coordinates below 30 of this model the truncated products are
\* those of the float64 arithmetic
HalfSqrt3(c) == 866025 * c

\* DrawKochSnowflake(n, start, end): the segments given to DrawLine, in order
RECURSIVE KochSegments_five(_, _, _)
KochSegments_five(n, start, end) ==
    IF n = 0 THEN <<<<start, end>>>>
    ELSE LET dx == Quo(end[1] - start[1], 3)
             dy == Quo(end[2] - start[2], 3)
             p1 == <<start[1] + dx, start[2] + dy>>
             p3 == <<start[1] + 2 * dx, start[2] + 2 * dy>>
         IN  KochSegments_five(n - 1, start, p1) \o KochSegments_five(n - 1, p1, p3)
             \o KochSegments_five(n - 1, p1, p3) \o KochSegments_five(n - 1, p3, end)
             \o KochSegments_five(n - 1, p3, end)

RECURSIVE KochSegments(_, _, _)
KochSegments(n, start, end) ==
    IF n = 0 THEN <<<<start, end>>>>
    ELSE LET dx == Quo(end[1] - start[1], 3)
             dy == Quo(end[2] - start[2], 3)
             p1 == <<start[1] + dx, start[2] + dy>>
             p3 == <<start[1] + 2 * dx, start[2] + 2 * dy>>
             p2 == <<Quo(2000000 * Quo(p1[1] + p3[1], 2) - HalfSqrt3(p1[2] - p3[2]),
                         2000000),
                     Quo(1000000 * (p1[2] + p3[2]) + HalfSqrt3(p1[1] - p3[1]),
                         2000000)>>
         IN  KochSegments(n - 1, start, p1) \o KochSegments(n - 1, p1, p2)
             \o KochSegments(n - 1, p2, p3) \o KochSegments(n - 1, p3, end)

\* DrawSierpinskiTriangle(n, start, width): the segments given to DrawLine
RECURSIVE SierpinskiSegments(_, _, _)
SierpinskiSegments(n, start, width) ==
    IF n = 0
    THEN LET p2 == <<start[1] + width, start[2]>>
             p3 == <<start[1] + Quo(width, 2),
                     start[2] + Quo(HalfSqrt3(width), 1000000)>>
         IN  <<<<start, p2>>, <<p2, p3>>, <<p3, start>>>>
    ELSE LET halfWidth == Quo(width, 2)
             halfHeight == Quo(HalfSqrt3(halfWidth), 1000000)
         IN  SierpinskiSegments(n - 1, start, halfWidth)
             \o SierpinskiSegments(n - 1, <<start[1] + halfWidth, start[2]>>, halfWidth)
             \o SierpinskiSegments(n - 1, <<start[1] + Quo(halfWidth, 2),
                                            start[2] + halfHeight>>, halfWidth)

\* the scanline fill of the second copy of DrawFilledPolygon.  ScanEdges:
\* the points are sorted by Y (sort.Slice; their Y are pairwise different
\* here), and the edges go from each point to the next, the last to the first.
ScanEdges(points) ==
    LET sorted == [i \in 1..Len(points) |->
                      CHOOSE p \in {points[k] : k \in 1..Len(points)} :
                          Cardinality({k \in 1..Len(points) :
                                          points[k][2] < p[2]}) = i - 1]
    IN  [i \in 1..Len(points) |-> <<sorted[i], sorted[(i % Len(points)) + 1]>>]

\* the indexes of the intersections table the fill uses, in order: every
\* scanline current.Y..next.Y of every edge, then y and y + 1 for every
\* scanline y of the canvas
ScanIndexes(points, height) ==
    Concat([i \in 1..Len(points) |->
               IF ScanEdges(points)[i][2][2] < ScanEdges(points)[i][1][2] THEN <<>>
               ELSE [k \in 1..(ScanEdges(points)[i][2][2]
                               - ScanEdges(points)[i][1][2] + 1) |->
                        ScanEdges(points)[i][1][2] + k - 1]])
    \o Concat([y \in 1..height |-> <<y - 1, y>>])

\* the indexes used until the first one outside the table panics
RECURSIVE UsedIndexes(_, _)
UsedIndexes(idx, height) ==
    IF idx = <<>> THEN <<>>
    ELSE IF Head(idx) < 0 \/ Head(idx) >= height THEN <<Head(idx)>>
    ELSE <<Head(idx)>> \o UsedIndexes(Tail(idx), height)

\* intersections[y] once the edges are done: the smallest of the width and
\* of int(current.X + slope * (y - current.Y)) for the edges that cross y
Intersections(points, width, y) ==
    Min({width} \cup
        {Quo(e[1][1] * (e[2][2] - e[1][2]) + (e[2][1] - e[1][1]) * (y - e[1][2]),
             e[2][2] - e[1][2]) :
            e \in {f \in {ScanEdges(points)[i] : i \in 1..Len(points)} :
                      f[1][2] <= y /\ y <= f[2][2]}})

\* DrawFilledPolygon, second copy: an index outside the table panics, in the
\* edge loops before anything is drawn, or else in the last scanline with
\* the lines of the scanlines before it drawn
FilledPolygon(ppm, points, color) ==
    LET used == UsedIndexes(ScanIndexes(points, ppm.height), ppm.height)
        bad == used[Len(used)] < 0 \/ used[Len(used)] >= ppm.height
        inEdges == Len(used) <= Len(ScanIndexes(points, ppm.height)) - 2 * ppm.height
        drawn == [y \in 1..(ppm.height - 1) |->
                     <<<<Intersections(points, ppm.width, y - 1), y - 1>>,
                       <<Intersections(points, ppm.width, y), y - 1>>>>]
    IN  [img |-> IF bad /\ inEdges THEN ppm
                 ELSE SetPixels(ppm, Lines(drawn), color),
         err |-> IF bad THEN "panic" ELSE "nil",
         trace |-> used]

(* Canvases and arguments *)

Ink == Pixel(255, 0, 9)
Blank(width, height) ==
    PPM([y \in 1..height |-> [x \in 1..width |-> Pixel(0, 0, 0)]],
        width, height, "P3", 255)

\* an empty canvas, an empty square canvas, and a canvas whose first column
\* is drawn already
Canvases ==
    {Blank(CanvasW, CanvasH), Blank(CanvasH, CanvasH),
     SetPixels(Blank(CanvasW, CanvasH), [i \in 1..CanvasH |-> <<0, i - 1>>], Ink)}

\* the points on the canvas and one pixel around it
DrawPoints(g) == (-1..g.width) \X (-1..g.height)

\* corners of the canvas and points next to it
Corners(g) ==
    {<<0, 0>>, <<g.width - 1, g.height - 1>>, <<g.width, -1>>, <<-1, g.height>>,
     <<1, 1>>}

\* the polygons: up to three corners
Polygons(g) ==
    {<<>>} \cup {<<p>> : p \in Corners(g)}
    \cup {<<p, q>> : p \in Corners(g), q \in Corners(g)}
    \cup {<<p, q, r>> : p \in Corners(g), q \in Corners(g), r \in Corners(g)}

\* the polygons the scanline fill is called with: no two vertices on one
\* scanline (an edge between two such vertices has the slope x / 0)
ScanPolygons(g) ==
    {ps \in Polygons(g) :
        /\ Len(ps) >= 2
        /\ \A i \in 1..Len(ps), j \in 1..Len(ps) : i # j => ps[i][2] # ps[j][2]}

(* Drawing calls *)

\* a drawing call op with the arguments a: r.img is the canvas it leaves,
\* r.err is "panic" when an index was out of range, r.trace what it did
Draw(op, a, r) ==
    /\ img' = r.img
    /\ ret' = r.err
    /\ trace' = r.trace
    /\ lastOp' = op
    /\ args' = a
    /\ reps' = 1
    /\ snap' = img
    /\ Spend
    /\ UNCHANGED <<disk, saved, stream>>

DrawLine ==
    /\ fuel # 0
    /\ \E p1 \in DrawPoints(img), p2 \in DrawPoints(img) :
           Draw("DrawLine", <<p1, p2, Ink>>, Plotted(img, DrawLinePoints(p1, p2), Ink))

DrawRectangle ==
    /\ fuel # 0
    /\ \E p1 \in DrawPoints(img), width \in -1..2, height \in -1..2 :
           Draw("DrawRectangle", <<p1, width, height, Ink>>,
                Plotted(img, Lines(RectangleSides(p1, width, height)), Ink))

DrawFilledRectangle ==
    /\ fuel # 0
    /\ \E p1 \in DrawPoints(img), width \in -1..2, height \in -1..2 :
           Draw("DrawFilledRectangle", <<p1, width, height, Ink>>,
                IF width <= 0 \/ height <= 0 THEN Plotted(img, <<>>, Ink)
                ELSE Plotted(img, Lines(RectangleSides(p1, width, height))
                                  \o RectangleInside(p1, width, height), Ink))

DrawCircle ==
    /\ fuel # 0
    /\ \E center \in DrawPoints(img), radius \in 0..3 :
           Draw("DrawCircle", <<center, radius, Ink>>,
                SetAll(img, CirclePoints(img, center, radius), Ink, <<>>))

DrawFilledCircle ==
    /\ fuel # 0
    /\ \E center \in DrawPoints(img), radius \in 0..3 :
           \E r \in {SetAll(img, CirclePoints(img, center, radius), Ink, <<>>)} :
               Draw("DrawFilledCircle", <<center, radius, Ink>>,
                    IF r.err = "panic" THEN r
                    ELSE [r EXCEPT !.img = FillRows(r.img, Ink)])

DrawTriangle ==
    /\ fuel # 0
    /\ \E p1 \in Corners(img), p2 \in Corners(img), p3 \in Corners(img) :
           Draw("DrawTriangle", <<p1, p2, p3, Ink>>,
                Plotted(img, Lines(<<<<p1, p2>>, <<p2, p3>>, <<p3, p1>>>>), Ink))

\* points[len(points)-1] of an empty polygon panics
DrawPolygon ==
    /\ fuel # 0
    /\ \E points \in Polygons(img) :
           Draw("DrawPolygon", <<points, Ink>>,
                IF points = <<>> THEN [img |-> img, err |-> "panic", trace |-> <<>>]
                ELSE Plotted(img,
                             Lines([i \in 1..Len(points) |->
                                       <<points[i], points[(i % Len(points)) + 1]>>]),
                             Ink))

DrawFilledPolygon ==
    /\ fuel # 0
    /\ \E points \in ScanPolygons(img) :
           Draw("DrawFilledPolygon", <<points, Ink>>, FilledPolygon(img, points, Ink))

DrawKochSnowflake ==
    /\ fuel # 0
    /\ \E n \in 0..MaxDepth, start \in Corners(img),
          end \in {<<3 * img.width, 0>>, <<img.width - 1, 3 * img.height>>, <<-1, -1>>} :
           \E segs \in {KochSegments(n, start, end)} :
               Draw("DrawKochSnowflake", <<n, start, end, 1, Ink>>,
                    [img |-> SetPixels(img, Lines(segs), Ink), err |-> "nil",
                     trace |-> segs])

DrawSierpinskiTriangle ==
    /\ fuel # 0
    /\ \E n \in 0..MaxDepth, start \in Corners(img),
          width \in {1, img.width, 3 * img.width} :
           \E segs \in {SierpinskiSegments(n, start, width)} :
               Draw("DrawSierpinskiTriangle", <<n, start, width, Ink>>,
                    [img |-> SetPixels(img, Lines(segs), Ink), err |-> "nil",
                     trace |-> segs])

\* one drawing call on a canvas
InitDraw ==
    /\ img \in Canvases
    /\ disk = NoFile
    /\ saved = Nil
    /\ ret = "nil"
    /\ lastOp = "init"
    /\ args = <<>>
    /\ reps = 0
    /\ snap = Nil
    /\ stream = Stream(0, 0)
    /\ trace = <<>>
    /\ fuel = 1

NextDraw ==
    \/ DrawLine
    \/ DrawRectangle
    \/ DrawFilledRectangle
    \/ DrawCircle
    \/ DrawFilledCircle
    \/ DrawTriangle
    \/ DrawPolygon
    \/ DrawFilledPolygon
    \/ DrawKochSnowflake
    \/ DrawSierpinskiTriangle

SpecDraw == InitDraw /\ [][NextDraw]_vars

\* C23: DrawLine(p1, p2, color) and DrawLine(p2, p1, color), applied to the
\* same grid, set exactly the same set of pixels.
C23_LineSymmetry ==
    lastOp = "DrawLine" =>
        img = SetPixels(snap, DrawLinePoints(args[2], args[1]), args[3])

\* the point p is not a pixel of the canvas g
Outside(g, p) == p[1] < 0 \/ p[1] >= g.width \/ p[2] < 0 \/ p[2] >= g.height

\* C24: a call of DrawLine, DrawRectangle, DrawFilledRectangle, DrawCircle,
\* DrawFilledCircle, DrawTriangle or DrawPolygon that writes a pixel outside
\* the canvas completes without an index out of range and leaves the width,
\* the height and the shape of the grid as they were.
C24_OutOfBoundsNoOp ==
    (/\ lastOp \in {"DrawLine", "DrawRectangle", "DrawFilledRectangle",
                    "DrawCircle", "DrawFilledCircle", "DrawTriangle",
                    "DrawPolygon"}
     /\ \E i \in 1..Len(trace) : Outside(snap, trace[i])) =>
        /\ ret = "nil"
        /\ img.width = snap.width
        /\ img.height = snap.height
        /\ Len(img.data) = img.height
        /\ \A y \in 1..Len(img.data) : Len(img.data[y]) = img.width

RECURSIVE Power(_, _)
Power(b, n) == IF n = 0 THEN 1 ELSE b * Power(b, n - 1)

C28_ScanlineGuard ==
    lastOp = "DrawFilledPolygon" =>
        \A i \in 1..Len(trace) : trace[i] \in 0..(snap.height - 1)

----------------------------------------------------------------------------
(* Save and Read with their files: the file system may run out of room     *)

\* the images saved: one of each magic number, one after
\* SetMagicNumber("P7"), and one wider than a buffer
StreamImages ==
    {BasePBM("P1"), BasePBM("P4"), BasePGM("P2"), BasePGM("P5"), BasePPM("P3"),
     BasePPM("P6"), SetMagicNumberImg(BasePPM("P3"), "P7"), WidePGM}

\* ASCII files with the token "x" in place of a sample or of the max value
StreamFiles ==
    {ReplaceLine(SavePBM(BasePBM("P1")).bytes, 3, <<49, SP, 120>>),
     ReplaceLine(SavePGM(BasePGM("P2")).bytes, 4, <<48, SP, 120>>),
     ReplaceLine(SavePPM(BasePPM("P3")).bytes, 3, <<120>>)}

InitStream ==
    /\ \/ img = Nil /\ disk \in StreamFiles
       \/ disk = NoFile /\ img \in StreamImages
    /\ saved = Nil
    /\ ret = "nil"
    /\ lastOp = "init"
    /\ args = <<>>
    /\ reps = 0
    /\ snap = Nil
    /\ stream = Stream(0, 0)
    /\ trace = <<>>
    /\ fuel = MaxSteps

\* Save with the room of the file system, in bytes: none, less than any
\* header, less than the small files, one write buffer, no limit
NextStream ==
    \/ \E q \in {0, 5, 12, BufSize, Unbounded} : SaveTo(q)
    \/ \E kind \in Kinds : Read(kind)

SpecStream == InitStream /\ [][NextStream]_vars

\* a 2 x 2 ASCII payload with a token that is no number
UnparsableToken(file, kind) ==
    /\ Header2x2(file, kind)
    /\ Line(file, 1) \in {<<80, 49>>, <<80, 50>>, <<80, 51>>}
    /\ \E i \in 1..Len(Fields(Payload(file, kind))) :
           ~IsNumber(Fields(Payload(file, kind))[i])

\* C25: a Save one of whose writes failed (the file holds less than Save had
\* to write) returns an error, and a Read of a file with a token that cannot
\* be parsed returns an error.
C25_FailuresSurfaced ==
    /\ (lastOp = "Save" /\ disk # SaveStream(saved, Unbounded).bytes) => ret # "nil"
    /\ (lastOp = "Read" /\ UnparsableToken(disk, args[1])) => ret # "nil"

\* C26: every Read and every Save that opened its file closed it, once, on
\* whatever path it returned, and a Save through a buffered writer flushed
\* the writer before the file was closed: on no return are written bytes in
\* the buffer that Flush was never called for.
C26_StreamReleased ==
    lastOp \in {"Read", "Save"} =>
        /\ stream.opened <= 1
        /\ stream.closed = stream.opened
        /\ stream.unflushed > 0 => stream.flushed


----------------------------------------------------------------------------
(* Binary rows and the read buffer *)

\* bytes of one binary row of a family
RowBytes(kind, width) ==
    IF kind = "PBM" THEN (width + 7) \div 8
    ELSE IF kind = "PGM" THEN width
    ELSE 3 * width

\* a binary file of the family of kind that holds, after its header, every
\* row of the height that the decoder takes from the header
CompleteBinary(file, kind) ==
    /\ NumLines(file) >= HeaderLines(kind)
    /\ Line(file, 1) \in Family(kind) \cap {<<80, 52>>, <<80, 53>>, <<80, 54>>}
    /\ \E h \in {ReadHeader(file, HeaderLines(kind))} :
           /\ h.d.width > 0
           /\ h.d.height > 0
           /\ Len(Payload(file, kind)) >= h.d.height * RowBytes(kind, h.d.width)

\* C30: a Read of a P4, P5 or P6 file that holds all its rows does not
\* return the unexpected-end-of-file error, however the buffered reader
\* cuts the file into reads.
C30_ChunkIndependence ==
    (lastOp = "Read" /\ CompleteBinary(disk, args[1])) =>
        ret # "unexpected end of file"

====
